---- MODULE Spec2Model ----
(***************************************************************************)
(* A model of the grant-application client: the GrantApplicationForm       *)
(* component (draft state, upload slots, submission sequencer), the App    *)
(* component (session store) and the Auth component (credential form),     *)
(* with the identity, storage and table collaborators as nondeterministic  *)
(* responders.  Every await of the source is a separate step, so that      *)
(* other event handlers interleave exactly where the event loop lets them. *)
(***************************************************************************)
EXTENDS Integers, Sequences, FiniteSets, TLC

VARIABLES
    formData,        \* useState<GrantApplication>: the draft, key -> value
    uploadedFiles,   \* useState<FileUploadState>: slot -> File, absent if unset
    isSubmitting,    \* useState(false)
    uploadProgress,  \* useState<UploadProgress>: slot -> boolean
    submitMessage,   \* useState<string>: the pieces of the message shown
    sub,             \* the running invocation of handleSubmit
    up,              \* per slot, the running invocation of handleFileUpload
    timers,          \* number of pending setTimeout(reset, 5000) callbacks
    shadow           \* history: the draft and slots as the completed writes
                     \* (edits, stored uploads, resets), applied one after
                     \* the other, leave them

VARIABLES
    session,         \* App: useState<Session | null>
    error,           \* App: useState<string>
    justVerified,    \* App: useState(false)
    effect,          \* App: whether the mount effect has run
    fetch,           \* App: the running invocation of fetchSession
    signOuts,        \* App: invocations of logout waiting for signOut
    authSession,     \* the session the identity collaborator holds
    notifications,   \* sessions the collaborator has sent to the listener
                     \* and the callback has not yet received
    isSignUp,        \* Auth: useState(false)
    email,           \* Auth: useState("")
    password,        \* Auth: useState("")
    message,         \* Auth: useState("")
    messageType,     \* Auth: useState<"success" | "error" | "">
    isLoading,       \* Auth: useState(false)
    authSub          \* Auth: the running invocation of handleSubmit

\* the state of App and of Auth
appVars == <<session, error, justVerified, effect, fetch, signOuts,
             authSession, notifications, isSignUp, email, password, message,
             messageType, isLoading, authSub>>

\* the state of GrantApplicationForm
formVars == <<formData, uploadedFiles, isSubmitting, uploadProgress,
              submitMessage, sub, up, timers, shadow>>

vars == <<formData, uploadedFiles, isSubmitting, uploadProgress, submitMessage,
          sub, up, timers, shadow, session, error, justVerified, effect,
          fetch, signOuts, authSession, notifications, isSignUp, email,
          password, message, messageType, isLoading, authSub>>

----------------------------------------------------------------------------
(* Bounds of the model *)

\* notifications the model lets wait for the listener
MaxNotifications == 2

\* invocations of logout the model lets wait for signOut
MaxSignOuts == 1

\* pending reset timers the model lets accumulate: an insert is answered
\* with a stored record only while fewer are pending
MaxTimers == 1

\* uploads the form specification lets be in flight at the same time (the
\* upload specification does not bound them)
MaxInFlight == 1

\* longest e-mail string the email-rule specification enumerates
MaxEmailLen == 6

----------------------------------------------------------------------------
(* Values *)

Slots == {"business_plan", "financial_statements", "supporting_documents"}

TextFields == {"company_name", "contact_person", "contact_phone",
               "project_description"}

EditFields == TextFields \cup {"contact_email", "grant_amount"}

\* `${fileType}_url`
UrlKey(fileType) ==
    CASE fileType = "business_plan" -> "business_plan_url"
      [] fileType = "financial_statements" -> "financial_statements_url"
      [] fileType = "supporting_documents" -> "supporting_documents_url"

UrlKeys == {UrlKey(s) : s \in Slots}

\* fileType.replace("_", " "): only the first underscore is replaced
SlotLabel(fileType) ==
    CASE fileType = "business_plan" -> "business plan"
      [] fileType = "financial_statements" -> "financial statements"
      [] fileType = "supporting_documents" -> "supporting documents"

\* the 10MB limit of handleFileUpload
MaxFileSize == 10 * 1024 * 1024

\* the bounds of the amount rule
MinGrant == 1000
MaxGrant == 1000000

\* File objects the user can select
Files == {"plan.pdf", "exact.pdf", "huge.pdf"}

\* the files the user selects in the form specification
FilesSelected == {"plan.pdf", "huge.pdf"}

\* file.size
FileSize(f) ==
    CASE f = "plan.pdf" -> 1
      [] f = "exact.pdf" -> MaxFileSize
      [] f = "huge.pdf" -> MaxFileSize + 1

\* file.name.split(".").pop()
FileExtension(f) == "pdf"

\* identities the identity collaborator can report
Users == {"u1"}

\* outcomes of supabase.auth.getUser(): a user, no user, an error, a rejection
GetUserResults == [kind : {"user"}, user : Users]
                  \cup {[kind |-> "nouser", user |-> ""],
                        [kind |-> "error", user |-> ""],
                        [kind |-> "throw", user |-> ""]}

\* crypto.randomUUID()
UUIDs == {"uuid1"}

\* error.message of a collaborator
ErrTexts == {"E1"}

\* data.id of a stored record
RecordIds == {"id1"}

\* outcomes of storage.upload(): stored, an error, or a rejection
UploadResults == {[kind |-> "ok", text |-> ""]}
                 \cup [kind : {"error"}, text : ErrTexts]
                 \cup {[kind |-> "throw", text |-> ""]}

\* outcomes of from("grant_applications").insert().select().single()
InsertResults == [kind : {"ok"}, text : RecordIds]
                 \cup [kind : {"error"}, text : ErrTexts]
                 \cup {[kind |-> "throw", text |-> ""]}

\* strings are sequences of characters; "" is the empty sequence
EmptyString == <<>>

\* what the user types into the plain text inputs
TextInputs == {EmptyString, <<"x">>}

EmailOk == <<"a", "@", "b", ".", "c", "o">>
EmailInputs == {EmptyString, EmailOk}

\* raw values of the number input
AmountInputs == {EmptyString, <<"1", "0", "0", "0">>}

\* {...obj, [key]: value}
Put(obj, key, value) ==
    [k \in DOMAIN obj \cup {key} |-> IF k = key THEN value ELSE obj[k]]

\* obj.key is undefined
Absent(obj, key) == key \notin DOMAIN obj

----------------------------------------------------------------------------
(* handleInputChange *)

Digits == {"0", "1", "2", "3", "4", "5", "6", "7", "8", "9"}

DigitVal(c) ==
    CASE c = "0" -> 0 [] c = "1" -> 1 [] c = "2" -> 2 [] c = "3" -> 3
      [] c = "4" -> 4 [] c = "5" -> 5 [] c = "6" -> 6 [] c = "7" -> 7
      [] c = "8" -> 8 [] c = "9" -> 9

\* the longest prefix of digits of s: <<number of digits, their value>>
RECURSIVE ParseDigits(_, _, _)
ParseDigits(s, n, acc) ==
    IF s # <<>> /\ Head(s) \in Digits
    THEN ParseDigits(Tail(s), n + 1, acc * 10 + DigitVal(Head(s)))
    ELSE <<n, acc>>

\* parseFloat on the integer literals a number input yields: an optional
\* sign, then digits; NaN when no digit follows
ParseFloat(s) ==
    LET neg == s # <<>> /\ Head(s) = "-"
        d == ParseDigits(IF neg THEN Tail(s) ELSE s, 0, 0)
    IN [nan |-> d[1] = 0, val |-> IF neg THEN 0 - d[2] ELSE d[2]]

\* parseFloat(value) || 0
ParseFloatOrZero(s) ==
    LET v == ParseFloat(s) IN IF v.nan THEN 0 ELSE v.val

\* e.target.type of the input named `name`
InputType(name) ==
    CASE name = "grant_amount" -> "number"
      [] name = "contact_email" -> "email"
      [] name = "contact_phone" -> "tel"
      [] OTHER -> "text"

\* type === "number" ? parseFloat(value) || 0 : value
InputValue(type, value) ==
    IF type = "number" THEN ParseFloatOrZero(value) ELSE value

\* a stale update: a handler memoised at the first render spreads the
\* formData of that render, ({...formData, [name]: value})
SetField_StaleClosure(prev, name, value) ==
    Put([company_name |-> EmptyString, contact_email |-> EmptyString,
         contact_phone |-> EmptyString, contact_person |-> EmptyString,
         grant_amount |-> 1000, project_description |-> EmptyString],
        name, value)

\* the functional update (prev) => ({...prev, [name]: value})
SetField(prev, name, value) == Put(prev, name, value)

----------------------------------------------------------------------------
(* The validation rules of handleSubmit *)

\* !value of a string
Falsy(str) == str = EmptyString

\* rule (a) with the contact_phone test left out
RequiredMissing_NoPhone(fd) ==
    \/ Falsy(fd.company_name)
    \/ Falsy(fd.contact_email)
    \/ Falsy(fd.contact_person)
    \/ Falsy(fd.project_description)
    \/ fd.grant_amount <= 0

\* rule (a): a required field is empty or grant_amount <= 0
RequiredMissing(fd) ==
    \/ Falsy(fd.company_name)
    \/ Falsy(fd.contact_email)
    \/ Falsy(fd.contact_person)
    \/ Falsy(fd.contact_phone)
    \/ Falsy(fd.project_description)
    \/ fd.grant_amount <= 0

\* \s
Whitespace == {" ", "\t", "\n"}

\* [^\s]: the character class without the @
NotSpaceNorAt_AllowsAt(c) == c \notin Whitespace

\* [^\s@]
NotSpaceNorAt(c) == c \notin Whitespace \cup {"@"}

\* /^[^\s@]+@[^\s@]+\.[^\s@]+$/ as an automaton.  Positions: 0 at ^,
\* 1 in the first [^\s@]+, 2 after @, 3 in the second [^\s@]+, 4 after \.,
\* 5 in the third [^\s@]+ (where $ may match)
RegexStep(q, c) ==
    CASE q = 0 -> IF NotSpaceNorAt(c) THEN {1} ELSE {}
      [] q = 1 -> (IF NotSpaceNorAt(c) THEN {1} ELSE {})
                  \cup (IF c = "@" THEN {2} ELSE {})
      [] q = 2 -> IF NotSpaceNorAt(c) THEN {3} ELSE {}
      [] q = 3 -> (IF NotSpaceNorAt(c) THEN {3} ELSE {})
                  \cup (IF c = "." THEN {4} ELSE {})
      [] q = 4 -> IF NotSpaceNorAt(c) THEN {5} ELSE {}
      [] q = 5 -> IF NotSpaceNorAt(c) THEN {5} ELSE {}

\* the positions the regex can be at after reading str from positions qs
RECURSIVE RegexRun(_, _)
RegexRun(qs, str) ==
    IF str = <<>> THEN qs
    ELSE RegexRun(UNION {RegexStep(q, Head(str)) : q \in qs}, Tail(str))

\* emailRegex.test(str)
EmailRegexTest(str) == 5 \in RegexRun({0}, str)

\* rule (c) with the comparisons made inclusive
AmountOutOfRange_Inclusive(amount) == amount <= MinGrant \/ amount >= MaxGrant

\* rule (c): grant_amount < 1000 || grant_amount > 1000000
AmountOutOfRange(amount) == amount < MinGrant \/ amount > MaxGrant

\* rule (d): a document slot holds no file
DocumentsMissing(files) ==
    \/ Absent(files, "business_plan")
    \/ Absent(files, "financial_statements")
    \/ Absent(files, "supporting_documents")

MsgRequired == <<"Please fill in all required fields">>
MsgEmail == <<"Please enter a valid email address">>
MsgAmount == <<"Grant amount must be between $1,000 and $1,000,000">>
MsgDocuments == <<"Please upload all required documents: Business Plan, Financial Statements, and Supporting Documents.">>
MsgLoginSubmit == <<"Please log in to submit your application">>
MsgSubmitFailed == <<"Submission failed. Please check your connection and try again.">>
MsgFileSize == <<"File size must be less than 10MB">>
MsgLoginUpload == <<"Please log in to upload files">>
MsgUploadFailed == <<"Upload failed. Please try again.">>

\* `Error submitting application: ${error.message}`
MsgInsertError(text) == <<"Error submitting application: ", text>>

\* `Application submitted successfully! Application ID: ${data.id}.`
MsgSuccess(id) ==
    <<"Application submitted successfully! Application ID: ", id, ".">>

\* `Error uploading ${fileType.replace("_", " ")}: ${error.message}`
MsgUploadError(fileType, text) ==
    <<"Error uploading ", SlotLabel(fileType), ": ", text>>

\* the rules with the documents rule moved to the front
ValidationMessage_DocumentsFirst(fd, files) ==
    IF DocumentsMissing(files) THEN MsgDocuments
    ELSE IF RequiredMissing(fd) THEN MsgRequired
    ELSE IF ~EmailRegexTest(fd.contact_email) THEN MsgEmail
    ELSE IF AmountOutOfRange(fd.grant_amount) THEN MsgAmount
    ELSE EmptyString

\* the message of the first rule that fails, in the order of the source;
\* the empty message when every rule passes
ValidationMessage(fd, files) ==
    IF RequiredMissing(fd) THEN MsgRequired
    ELSE IF ~EmailRegexTest(fd.contact_email) THEN MsgEmail
    ELSE IF AmountOutOfRange(fd.grant_amount) THEN MsgAmount
    ELSE IF DocumentsMissing(files) THEN MsgDocuments
    ELSE EmptyString

----------------------------------------------------------------------------
(* App and Auth: values *)

\* a null session
NoSession == "null"

\* sessions the identity collaborator can hold
Sessions == {"s1", "s2"}

MsgFetchFailed == <<"Failed to fetch session">>
MsgLogoutFailed == <<"Failed to log out">>
MsgCheckInbox == <<"Please, check your inbox. You will receive a confirmation email shortly.">>

\* `Error: ${signUpError.message}`, `Error: ${signInError.message}`
MsgAuthError(text) == <<"Error: ", text>>

\* what the user types into the inputs of Auth
AuthInputs == {EmptyString, <<"x">>}

\* outcomes of supabase.auth.getSession(): resolved or rejected
GetSessionResults == {"ok", "throw"}

\* outcomes of supabase.auth.signOut(): done, an error result, a rejection
SignOutResults == {"ok", "error", "throw"}

\* outcomes of supabase.auth.signUp(): an error, a user whose e-mail is not
\* confirmed, a user signed in with the session `session`, a rejection
SignUpResults == [kind : {"error"}, text : ErrTexts, session : {NoSession}]
                 \cup {[kind |-> "unconfirmed", text |-> "",
                        session |-> NoSession],
                       [kind |-> "throw", text |-> "", session |-> NoSession]}
                 \cup [kind : {"confirmed"}, text : {""}, session : Sessions]

\* outcomes of supabase.auth.signInWithPassword(): an error, signed in with
\* the session `session`, a rejection
SignInResults == [kind : {"error"}, text : ErrTexts, session : {NoSession}]
                 \cup {[kind |-> "throw", text |-> "", session |-> NoSession]}
                 \cup [kind : {"ok"}, text : {""}, session : Sessions]

IdleFetch == [pc |-> "idle", session |-> NoSession]

IdleAuthSub == [pc |-> "idle", requests |-> 0]

\* the useState initial values of Auth, with no invocation running
AuthInitial ==
    [isSignUp |-> FALSE, email |-> EmptyString, password |-> EmptyString,
     message |-> EmptyString, messageType |-> "", isLoading |-> FALSE,
     authSub |-> IdleAuthSub]

\* App at startup: rendered once, the mount effect not yet run; the
\* collaborator may or may not hold a session already
AppStartup ==
    /\ session = NoSession
    /\ error = EmptyString
    /\ justVerified = FALSE
    /\ effect = "initial"
    /\ fetch = IdleFetch
    /\ signOuts = 0
    /\ authSession \in {NoSession} \cup Sessions
    /\ notifications = <<>>
    /\ isSignUp = AuthInitial.isSignUp
    /\ email = AuthInitial.email
    /\ password = AuthInitial.password
    /\ message = AuthInitial.message
    /\ messageType = AuthInitial.messageType
    /\ isLoading = AuthInitial.isLoading
    /\ authSub = AuthInitial.authSub

\* App with a session, rendering GrantApplicationForm
AppShowsForm ==
    /\ session = "s1"
    /\ error = EmptyString
    /\ justVerified = FALSE
    /\ effect = "subscribed"
    /\ fetch = IdleFetch
    /\ signOuts = 0
    /\ authSession = "s1"
    /\ notifications = <<>>
    /\ isSignUp = AuthInitial.isSignUp
    /\ email = AuthInitial.email
    /\ password = AuthInitial.password
    /\ message = AuthInitial.message
    /\ messageType = AuthInitial.messageType
    /\ isLoading = AuthInitial.isLoading
    /\ authSub = AuthInitial.authSub

----------------------------------------------------------------------------
(* State after construction *)

\* the initial value of useState<GrantApplication>
InitialDraft ==
    [company_name |-> EmptyString, contact_email |-> EmptyString,
     contact_phone |-> EmptyString, contact_person |-> EmptyString,
     grant_amount |-> 1000, project_description |-> EmptyString]

\* a reset that spreads the previous draft and so keeps its document urls
ResetDraft_KeepsUrls ==
    [k \in DOMAIN formData |->
       IF k = "grant_amount" THEN 0
       ELSE IF k \in UrlKeys THEN formData[k] ELSE EmptyString]

\* the object the reset timer stores
ResetDraft ==
    [company_name |-> EmptyString, contact_email |-> EmptyString,
     contact_phone |-> EmptyString, contact_person |-> EmptyString,
     grant_amount |-> 0, project_description |-> EmptyString]

\* {}
EmptyObject == [k \in {} |-> EmptyString]

IdleSub == [pc |-> "idle", formData |-> EmptyObject, user |-> "",
            record |-> EmptyObject, inserts |-> 0]

IdleUp == [pc |-> "idle", file |-> "", path |-> <<>>]

Init ==
    /\ formData = InitialDraft
    /\ uploadedFiles = EmptyObject
    /\ isSubmitting = FALSE
    /\ uploadProgress = [s \in Slots |-> FALSE]
    /\ submitMessage = EmptyString
    /\ sub = IdleSub
    /\ up = [s \in Slots |-> IdleUp]
    /\ timers = 0
    /\ shadow = [formData |-> InitialDraft, uploadedFiles |-> EmptyObject]
    /\ AppShowsForm

----------------------------------------------------------------------------
(* handleInputChange *)

handleInputChange(name, value) ==
    LET v == InputValue(InputType(name), value) IN
    /\ formData[name] # v               \* onChange fires on a change only
    /\ formData' = SetField(formData, name, v)
    /\ shadow' = [shadow EXCEPT !.formData = Put(@, name, v)]
    /\ UNCHANGED <<uploadedFiles, isSubmitting, uploadProgress, submitMessage,
                   sub, up, timers>>
    /\ UNCHANGED appVars

----------------------------------------------------------------------------
(* handleFileUpload *)

\* the limit typed with a digit too many: file.size > 100 * 1024 * 1024
FileTooLarge_HundredMB(file) == FileSize(file) > 100 * 1024 * 1024

\* the limit made inclusive: file.size >= 10 * 1024 * 1024
FileTooLarge_Inclusive(file) == FileSize(file) >= MaxFileSize

\* file.size > 10 * 1024 * 1024
FileTooLarge(file) == FileSize(file) > MaxFileSize

\* `${user.id}/${crypto.randomUUID()}.${fileExtension}`
FilePath(userId, uuid, file) == <<userId, "/", uuid, ".", FileExtension(file)>>

\* getPublicUrl(path).data.publicUrl
PublicUrl(path) == <<"public/grant-documents/">> \o path

\* the handler without setUploadProgress(true): the input stays enabled
\* while the requests are awaited
handleFileUpload_NoFlag(fileType, file) ==
    /\ ~uploadProgress[fileType]
    /\ IF FileTooLarge(file)
       THEN /\ submitMessage' = MsgFileSize
            /\ UNCHANGED up
       ELSE /\ up' = [up EXCEPT ![fileType] =
                        [pc |-> "getUser", file |-> file, path |-> <<>>]]
            /\ UNCHANGED submitMessage
    /\ UNCHANGED <<formData, uploadedFiles, isSubmitting, sub, timers, shadow,
                   uploadProgress>>
    /\ UNCHANGED appVars

\* the onChange handler of a slot's file input, up to the first await
handleFileUpload(fileType, file) ==
    /\ ~uploadProgress[fileType]          \* the input is disabled otherwise
    /\ IF FileTooLarge(file)
       THEN /\ submitMessage' = MsgFileSize
            /\ UNCHANGED <<uploadProgress, up>>
       ELSE /\ uploadProgress' = [uploadProgress EXCEPT ![fileType] = TRUE]
            /\ up' = [up EXCEPT ![fileType] =
                        [pc |-> "getUser", file |-> file, path |-> <<>>]]
            /\ UNCHANGED submitMessage
    /\ UNCHANGED <<formData, uploadedFiles, isSubmitting, sub, timers, shadow>>
    /\ UNCHANGED appVars

\* an upload handler without its finally block: the flag is never reset
UploadFinally_NoReset(fileType) ==
    /\ UNCHANGED uploadProgress
    /\ up' = [up EXCEPT ![fileType] = IdleUp]

\* what the upload handler does when it leaves through finally
UploadFinally(fileType) ==
    /\ uploadProgress' = [uploadProgress EXCEPT ![fileType] = FALSE]
    /\ up' = [up EXCEPT ![fileType] = IdleUp]

\* the code after `await supabase.auth.getUser()` up to the next await
handleFileUpload_getUser(fileType, r) ==
    /\ up[fileType].pc = "getUser"
    /\ CASE r.kind = "throw" ->
              /\ submitMessage' = MsgUploadFailed
              /\ UploadFinally(fileType)
         [] r.kind \in {"error", "nouser"} ->
              /\ submitMessage' = MsgLoginUpload
              /\ UploadFinally(fileType)
         [] r.kind = "user" ->
              /\ \E uuid \in UUIDs :
                   up' = [up EXCEPT ![fileType].pc = "upload",
                            ![fileType].path =
                               FilePath(r.user, uuid, up[fileType].file)]
              /\ UNCHANGED <<submitMessage, uploadProgress>>
    /\ UNCHANGED <<formData, uploadedFiles, isSubmitting, sub, timers, shadow>>
    /\ UNCHANGED appVars

\* an upload that also stamps the owner on the draft
StoreUrl_WithOwner(prev, fileType, url) ==
    Put(SetField(prev, UrlKey(fileType), url), "user_id", "u1")

\* the state a stored upload writes: the draft's {slot}_url
StoreUrl(prev, fileType, url) == SetField(prev, UrlKey(fileType), url)

\* the slots replaced instead of spread: { [fileType]: file }
StoreFile_Replaces(prev, fileType, file) == [k \in {fileType} |-> file]

\* the state a stored upload writes: the slot's file handle
StoreFile(prev, fileType, file) == Put(prev, fileType, file)

\* the code after `await supabase.storage.from(...).upload(...)`
handleFileUpload_upload(fileType, r) ==
    /\ up[fileType].pc = "upload"
    /\ CASE r.kind = "throw" ->
              /\ submitMessage' = MsgUploadFailed
              /\ UNCHANGED <<formData, uploadedFiles, shadow>>
         [] r.kind = "error" ->
              /\ submitMessage' = MsgUploadError(fileType, r.text)
              /\ UNCHANGED <<formData, uploadedFiles, shadow>>
         [] r.kind = "ok" ->
              LET url == PublicUrl(up[fileType].path)
                  file == up[fileType].file
              IN /\ formData' = StoreUrl(formData, fileType, url)
                 /\ uploadedFiles' = StoreFile(uploadedFiles, fileType, file)
                 /\ shadow' =
                      [formData |-> Put(shadow.formData, UrlKey(fileType), url),
                       uploadedFiles |->
                          Put(shadow.uploadedFiles, fileType, file)]
                 /\ UNCHANGED submitMessage
    /\ UploadFinally(fileType)
    /\ UNCHANGED <<isSubmitting, sub, timers>>
    /\ UNCHANGED appVars

----------------------------------------------------------------------------
(* handleSubmit *)

\* the record without the owner: { ...formData, status: "pending" }
ApplicationData_NoOwner(fd, userId) == Put(fd, "status", "pending")

\* { ...formData, user_id: user.id, status: "pending" }
ApplicationData(fd, userId) ==
    Put(Put(fd, "user_id", userId), "status", "pending")

\* the handler without setIsSubmitting(true): the button stays enabled
\* while the requests are awaited
handleSubmit_NoFlag ==
    /\ ~isSubmitting
    /\ LET reason == ValidationMessage(formData, uploadedFiles) IN
       IF reason # EmptyString
       THEN /\ submitMessage' = reason
            /\ sub' = IdleSub
       ELSE /\ submitMessage' = EmptyString
            /\ sub' = [IdleSub EXCEPT !.pc = "getUser", !.formData = formData]
    /\ UNCHANGED <<formData, uploadedFiles, uploadProgress, up, timers,
                   shadow, isSubmitting>>
    /\ UNCHANGED appVars

\* the click handler of the submit button, up to the first await.  The
\* handler reads the formData and uploadedFiles of the render it was
\* created in, sub.formData keeps that formData for the later spread
handleSubmit ==
    /\ ~isSubmitting                      \* the button is disabled otherwise
    /\ LET reason == ValidationMessage(formData, uploadedFiles) IN
       IF reason # EmptyString
       THEN /\ submitMessage' = reason
            /\ isSubmitting' = FALSE
            /\ sub' = IdleSub
       ELSE /\ submitMessage' = EmptyString
            /\ isSubmitting' = TRUE
            /\ sub' = [IdleSub EXCEPT !.pc = "getUser", !.formData = formData]
    /\ UNCHANGED <<formData, uploadedFiles, uploadProgress, up, timers,
                   shadow>>
    /\ UNCHANGED appVars

\* the session test without its return: the message is set and the handler
\* goes on to the insert
handleSubmit_getUser_NoReturn(r) ==
    /\ sub.pc = "getUser"
    /\ CASE r.kind = "throw" ->
              /\ submitMessage' = MsgSubmitFailed
              /\ isSubmitting' = FALSE
              /\ sub' = IdleSub
         [] r.kind \in {"error", "nouser", "user"} ->
              /\ sub' = [sub EXCEPT !.pc = "insert", !.user = r.user,
                           !.record = ApplicationData(sub.formData, r.user),
                           !.inserts = @ + 1]
              /\ submitMessage' = IF r.kind = "user" THEN submitMessage
                                  ELSE MsgLoginSubmit
              /\ UNCHANGED isSubmitting
    /\ UNCHANGED <<formData, uploadedFiles, uploadProgress, up, timers,
                   shadow>>
    /\ UNCHANGED appVars

\* a handler that builds the record from the draft as it is when getUser
\* returns, not from the draft it validated
handleSubmit_getUser_CurrentDraft(r) ==
    /\ sub.pc = "getUser"
    /\ CASE r.kind = "throw" ->
              /\ submitMessage' = MsgSubmitFailed
              /\ isSubmitting' = FALSE
              /\ sub' = IdleSub
         [] r.kind \in {"error", "nouser"} ->
              /\ submitMessage' = MsgLoginSubmit
              /\ isSubmitting' = FALSE
              /\ sub' = IdleSub
         [] r.kind = "user" ->
              /\ sub' = [sub EXCEPT !.pc = "insert", !.user = r.user,
                           !.formData = formData,
                           !.record = ApplicationData(formData, r.user),
                           !.inserts = @ + 1]
              /\ UNCHANGED <<submitMessage, isSubmitting>>
    /\ UNCHANGED <<formData, uploadedFiles, uploadProgress, up, timers,
                   shadow>>
    /\ UNCHANGED appVars

\* the code after `await supabase.auth.getUser()` up to the next await
handleSubmit_getUser(r) ==
    /\ sub.pc = "getUser"
    /\ CASE r.kind = "throw" ->
              /\ submitMessage' = MsgSubmitFailed
              /\ isSubmitting' = FALSE
              /\ sub' = IdleSub
         [] r.kind \in {"error", "nouser"} ->
              /\ submitMessage' = MsgLoginSubmit
              /\ isSubmitting' = FALSE
              /\ sub' = IdleSub
         [] r.kind = "user" ->
              /\ sub' = [sub EXCEPT !.pc = "insert", !.user = r.user,
                           !.record = ApplicationData(sub.formData, r.user),
                           !.inserts = @ + 1]
              /\ UNCHANGED <<submitMessage, isSubmitting>>
    /\ UNCHANGED <<formData, uploadedFiles, uploadProgress, up, timers,
                   shadow>>
    /\ UNCHANGED appVars

\* the handler without its finally block: only the success path clears
\* isSubmitting
handleSubmit_insert_NoFinally(r) ==
    /\ sub.pc = "insert"
    /\ CASE r.kind = "throw" ->
              /\ submitMessage' = MsgSubmitFailed
              /\ sub' = IdleSub
              /\ UNCHANGED <<timers, isSubmitting>>
         [] r.kind = "error" ->
              /\ submitMessage' = MsgInsertError(r.text)
              /\ sub' = IdleSub
              /\ UNCHANGED <<timers, isSubmitting>>
         [] r.kind = "ok" ->
              /\ timers < MaxTimers
              /\ submitMessage' = MsgSuccess(r.text)
              /\ sub' = IdleSub
              /\ timers' = timers + 1
              /\ isSubmitting' = FALSE
    /\ UNCHANGED <<formData, uploadedFiles, uploadProgress, up, shadow>>
    /\ UNCHANGED appVars

\* the code after `await supabase.from(...).insert(...).select().single()`
handleSubmit_insert(r) ==
    /\ sub.pc = "insert"
    /\ CASE r.kind = "throw" ->
              /\ submitMessage' = MsgSubmitFailed
              /\ sub' = IdleSub
              /\ UNCHANGED timers
         [] r.kind = "error" ->
              /\ submitMessage' = MsgInsertError(r.text)
              /\ sub' = IdleSub
              /\ UNCHANGED timers
         [] r.kind = "ok" ->
              /\ timers < MaxTimers
              /\ submitMessage' = MsgSuccess(r.text)
              /\ sub' = IdleSub
              /\ timers' = timers + 1
    /\ isSubmitting' = (sub'.pc # "idle")
    /\ UNCHANGED <<formData, uploadedFiles, uploadProgress, up, shadow>>
    /\ UNCHANGED appVars

\* a reset without setUploadedFiles({}): the slots keep their files
resetTimeout_KeepsFiles ==
    /\ timers > 0
    /\ timers' = timers - 1
    /\ formData' = ResetDraft
    /\ submitMessage' = EmptyString
    /\ shadow' = [formData |-> ResetDraft, uploadedFiles |-> EmptyObject]
    /\ UNCHANGED <<isSubmitting, uploadProgress, sub, up, uploadedFiles>>
    /\ UNCHANGED appVars

\* the callback of setTimeout(..., 5000)
resetTimeout ==
    /\ timers > 0
    /\ timers' = timers - 1
    /\ formData' = ResetDraft
    /\ uploadedFiles' = EmptyObject
    /\ submitMessage' = EmptyString
    /\ shadow' = [formData |-> ResetDraft, uploadedFiles |-> EmptyObject]
    /\ UNCHANGED <<isSubmitting, uploadProgress, sub, up>>
    /\ UNCHANGED appVars

----------------------------------------------------------------------------
(* App: the session store *)

\* the state of Auth
authVars == <<isSignUp, email, password, message, messageType, isLoading,
              authSub>>

\* App stops rendering Auth: its state is dropped, the next Auth starts
\* from the initial values, and what a handler of the dropped one still sets
\* has no effect
AuthUnmounts ==
    /\ isSignUp' = AuthInitial.isSignUp
    /\ email' = AuthInitial.email
    /\ password' = AuthInitial.password
    /\ message' = AuthInitial.message
    /\ messageType' = AuthInitial.messageType
    /\ isLoading' = AuthInitial.isLoading
    /\ authSub' = AuthInitial.authSub

\* App stops rendering GrantApplicationForm: its state is dropped, the next
\* form starts from the initial values, and what a handler or a timer of the
\* dropped one still sets has no effect
FormUnmounts ==
    /\ formData' = InitialDraft
    /\ uploadedFiles' = EmptyObject
    /\ isSubmitting' = FALSE
    /\ uploadProgress' = [s \in Slots |-> FALSE]
    /\ submitMessage' = EmptyString
    /\ sub' = IdleSub
    /\ up' = [s \in Slots |-> IdleUp]
    /\ timers' = 0
    /\ shadow' = [formData |-> InitialDraft, uploadedFiles |-> EmptyObject]

\* setSession(s) and the render that follows: {session ? form : <Auth />}
SetSession(s) ==
    /\ session' = s
    /\ IF session = NoSession /\ s # NoSession
       THEN AuthUnmounts
       ELSE UNCHANGED authVars
    /\ IF session # NoSession /\ s = NoSession
       THEN FormUnmounts
       ELSE UNCHANGED formVars

\* the collaborator's session becomes s; the listener, once subscribed, is
\* sent the session on every change
Notify(s) ==
    /\ authSession' = s
    /\ notifications' = IF effect = "subscribed" /\ s # authSession
                        THEN Append(notifications, s)
                        ELSE notifications

\* the mount effect: on a verified redirect set the banner flag and call
\* fetchSession (which runs up to its await); subscribe the listener
useEffect(isVerifiedRedirect) ==
    /\ effect = "initial"
    /\ effect' = "subscribed"
    /\ IF isVerifiedRedirect
       THEN /\ justVerified' = TRUE
            /\ fetch' = [pc |-> "getSession", session |-> NoSession]
       ELSE UNCHANGED <<justVerified, fetch>>
    /\ UNCHANGED <<session, error, signOuts, authSession, notifications>>
    /\ UNCHANGED authVars
    /\ UNCHANGED formVars

\* the collaborator answers getSession with the session it holds, or rejects
getSession(r) ==
    /\ fetch.pc = "getSession"
    /\ fetch' = IF r = "ok"
                THEN [pc |-> "resolved", session |-> authSession]
                ELSE [pc |-> "rejected", session |-> NoSession]
    /\ UNCHANGED <<session, error, justVerified, effect, signOuts,
                   authSession, notifications>>
    /\ UNCHANGED authVars
    /\ UNCHANGED formVars

\* fetchSession after `await supabase.auth.getSession()`
fetchSession ==
    /\ fetch.pc \in {"resolved", "rejected"}
    /\ IF fetch.pc = "resolved"
       THEN /\ SetSession(fetch.session)
            /\ UNCHANGED error
       ELSE /\ error' = MsgFetchFailed
            /\ UNCHANGED session
            /\ UNCHANGED authVars
            /\ UNCHANGED formVars
    /\ fetch' = IdleFetch
    /\ UNCHANGED <<justVerified, effect, signOuts, authSession,
                   notifications>>

\* the listener: (_event, session) => { setSession(session) }
onAuthStateChange ==
    /\ effect = "subscribed"
    /\ notifications # <<>>
    /\ SetSession(Head(notifications))
    /\ notifications' = Tail(notifications)
    /\ UNCHANGED <<error, justVerified, effect, fetch, signOuts, authSession>>

\* the collaborator's session changes without a request of this page: a
\* token refresh, an expiry, a sign-in or sign-out in another tab
sessionChanges(s) ==
    /\ s # authSession
    /\ Len(notifications) < MaxNotifications
    /\ Notify(s)
    /\ UNCHANGED <<session, error, justVerified, effect, fetch, signOuts>>
    /\ UNCHANGED authVars
    /\ UNCHANGED formVars

\* the click handler of the Log Out button, up to its await
logout ==
    /\ session # NoSession                 \* the button is rendered
    /\ signOuts < MaxSignOuts
    /\ signOuts' = signOuts + 1
    /\ UNCHANGED <<session, error, justVerified, effect, fetch, authSession,
                   notifications>>
    /\ UNCHANGED authVars
    /\ UNCHANGED formVars

\* signOut is answered and logout resumes: the returned error is not
\* looked at, a rejection sets the error text
logout_signOut(r) ==
    /\ signOuts > 0
    /\ signOuts' = signOuts - 1
    /\ CASE r = "ok" ->
              /\ Len(notifications) < MaxNotifications
              /\ Notify(NoSession)
              /\ UNCHANGED error
         [] r = "error" ->
              UNCHANGED <<authSession, notifications, error>>
         [] r = "throw" ->
              /\ error' = MsgLogoutFailed
              /\ UNCHANGED <<authSession, notifications>>
    /\ UNCHANGED <<session, justVerified, effect, fetch>>
    /\ UNCHANGED authVars
    /\ UNCHANGED formVars

----------------------------------------------------------------------------
(* Auth: the credential form *)

\* App renders <Auth />, and its mount effect has run, as it has before
\* any event of the user is handled
AuthShown == session = NoSession /\ effect = "subscribed"

\* onChange of the e-mail input
setEmail(value) ==
    /\ AuthShown
    /\ ~isLoading                          \* the input is disabled otherwise
    /\ email # value
    /\ email' = value
    /\ UNCHANGED <<isSignUp, password, message, messageType, isLoading,
                   authSub>>
    /\ UNCHANGED <<session, error, justVerified, effect, fetch, signOuts,
                   authSession, notifications>>
    /\ UNCHANGED formVars

\* onChange of the password input
setPassword(value) ==
    /\ AuthShown
    /\ ~isLoading
    /\ password # value
    /\ password' = value
    /\ UNCHANGED <<isSignUp, email, message, messageType, isLoading, authSub>>
    /\ UNCHANGED <<session, error, justVerified, effect, fetch, signOuts,
                   authSession, notifications>>
    /\ UNCHANGED formVars

\* the toggle button: setIsSignUp(!isSignUp)
setIsSignUp ==
    /\ AuthShown
    /\ isSignUp' = ~isSignUp
    /\ UNCHANGED <<email, password, message, messageType, isLoading, authSub>>
    /\ UNCHANGED <<session, error, justVerified, effect, fetch, signOuts,
                   authSession, notifications>>
    /\ UNCHANGED formVars

\* a handler that signs in whatever the mode
Auth_handleSubmit_AlwaysSignIn ==
    /\ AuthShown
    /\ ~isLoading
    /\ isLoading' = TRUE
    /\ message' = EmptyString
    /\ messageType' = ""
    /\ authSub' = [pc |-> "signInWithPassword", requests |-> 1]
    /\ UNCHANGED <<isSignUp, email, password>>
    /\ UNCHANGED <<session, error, justVerified, effect, fetch, signOuts,
                   authSession, notifications>>
    /\ UNCHANGED formVars

\* onSubmit of the credential form, up to the await of its one request
Auth_handleSubmit ==
    /\ AuthShown
    /\ ~isLoading                          \* the button is disabled otherwise
    /\ isLoading' = TRUE
    /\ message' = EmptyString
    /\ messageType' = ""
    /\ authSub' = [pc |-> IF isSignUp THEN "signUp" ELSE "signInWithPassword",
                   requests |-> 1]
    /\ UNCHANGED <<isSignUp, email, password>>
    /\ UNCHANGED <<session, error, justVerified, effect, fetch, signOuts,
                   authSession, notifications>>
    /\ UNCHANGED formVars

\* the code after `await supabase.auth.signUp(...)`; a rejection is not
\* caught and ends the handler where it is
Auth_handleSubmit_signUp(r) ==
    /\ authSub.pc = "signUp"
    /\ authSub' = [authSub EXCEPT !.pc = "idle"]
    /\ CASE r.kind = "error" ->
              /\ message' = MsgAuthError(r.text)
              /\ messageType' = "error"
              /\ isLoading' = FALSE
              /\ UNCHANGED <<authSession, notifications>>
         [] r.kind = "unconfirmed" ->
              /\ message' = MsgCheckInbox
              /\ messageType' = "success"
              /\ isLoading' = FALSE
              /\ UNCHANGED <<authSession, notifications>>
         [] r.kind = "confirmed" ->
              /\ Len(notifications) < MaxNotifications
              /\ Notify(r.session)
              /\ isLoading' = FALSE
              /\ UNCHANGED <<message, messageType>>
         [] r.kind = "throw" ->
              UNCHANGED <<message, messageType, isLoading, authSession,
                          notifications>>
    /\ UNCHANGED <<isSignUp, email, password>>
    /\ UNCHANGED <<session, error, justVerified, effect, fetch, signOuts>>
    /\ UNCHANGED formVars

\* the code after `await supabase.auth.signInWithPassword(...)`
Auth_handleSubmit_signIn(r) ==
    /\ authSub.pc = "signInWithPassword"
    /\ authSub' = [authSub EXCEPT !.pc = "idle"]
    /\ CASE r.kind = "error" ->
              /\ message' = MsgAuthError(r.text)
              /\ messageType' = "error"
              /\ isLoading' = FALSE
              /\ UNCHANGED <<authSession, notifications>>
         [] r.kind = "ok" ->
              /\ Len(notifications) < MaxNotifications
              /\ Notify(r.session)
              /\ isLoading' = FALSE
              /\ UNCHANGED <<message, messageType>>
         [] r.kind = "throw" ->
              UNCHANGED <<message, messageType, isLoading, authSession,
                          notifications>>
    /\ UNCHANGED <<isSignUp, email, password>>
    /\ UNCHANGED <<session, error, justVerified, effect, fetch, signOuts>>
    /\ UNCHANGED formVars

----------------------------------------------------------------------------
(* App and Auth from startup; the form's own state is left out *)

InitApp ==
    /\ formData = InitialDraft
    /\ uploadedFiles = EmptyObject
    /\ isSubmitting = FALSE
    /\ uploadProgress = [s \in Slots |-> FALSE]
    /\ submitMessage = EmptyString
    /\ sub = IdleSub
    /\ up = [s \in Slots |-> IdleUp]
    /\ timers = 0
    /\ shadow = [formData |-> InitialDraft, uploadedFiles |-> EmptyObject]
    /\ AppStartup

NextApp ==
    \/ \E isVerifiedRedirect \in BOOLEAN : useEffect(isVerifiedRedirect)
    \/ \E r \in GetSessionResults : getSession(r)
    \/ fetchSession
    \/ onAuthStateChange
    \/ \E s \in {NoSession} \cup Sessions : sessionChanges(s)
    \/ logout
    \/ \E r \in SignOutResults : logout_signOut(r)
    \/ \E value \in AuthInputs : setEmail(value)
    \/ \E value \in AuthInputs : setPassword(value)
    \/ setIsSignUp
    \/ Auth_handleSubmit
    \/ \E r \in SignUpResults : Auth_handleSubmit_signUp(r)
    \/ \E r \in SignInResults : Auth_handleSubmit_signIn(r)

SpecApp == InitApp /\ [][NextApp]_vars

\* the same with a mount effect that runs, collaborators that answer
\* getSession, and notifications that reach the listener
SpecAppFair ==
    /\ InitApp
    /\ [][NextApp]_vars
    /\ WF_vars(\E isVerifiedRedirect \in BOOLEAN : useEffect(isVerifiedRedirect))
    /\ WF_vars(\E r \in GetSessionResults : getSession(r))
    /\ WF_vars(fetchSession)
    /\ WF_vars(onAuthStateChange)

----------------------------------------------------------------------------
(* The form: every handler, with the small input sets *)

InputsOf(name) ==
    CASE name = "grant_amount" -> AmountInputs
      [] name = "contact_email" -> EmailInputs
      [] OTHER -> TextInputs

\* the number of upload handlers waiting for a collaborator
InFlight == Cardinality({s \in Slots : up[s].pc # "idle"})

Next ==
    \/ \E name \in EditFields : \E value \in InputsOf(name) :
          handleInputChange(name, value)
    \/ \E s \in Slots : \E f \in FilesSelected :
          InFlight < MaxInFlight /\ handleFileUpload(s, f)
    \/ \E s \in Slots : \E r \in GetUserResults : handleFileUpload_getUser(s, r)
    \/ \E s \in Slots : \E r \in UploadResults : handleFileUpload_upload(s, r)
    \/ handleSubmit
    \/ \E r \in GetUserResults : handleSubmit_getUser(r)
    \/ \E r \in InsertResults : handleSubmit_insert(r)
    \/ resetTimeout

Spec == Init /\ [][Next]_vars

----------------------------------------------------------------------------
(* The upload coordinator alone: edits and uploads, with any number of     *)
(* slots in flight at the same time.                                        *)

NextUpload ==
    \/ \E name \in EditFields : \E value \in InputsOf(name) :
          handleInputChange(name, value)
    \/ \E s \in Slots : \E f \in FilesSelected : handleFileUpload(s, f)
    \/ \E s \in Slots : \E r \in GetUserResults : handleFileUpload_getUser(s, r)
    \/ \E s \in Slots : \E r \in UploadResults : handleFileUpload_upload(s, r)

SpecUpload == Init /\ [][NextUpload]_vars

----------------------------------------------------------------------------
(* The upload coordinator with files of every size around the limit, the   *)
(* draft's text fields left alone.                                          *)

NextSize ==
    \/ \E s \in Slots : \E f \in Files : handleFileUpload(s, f)
    \/ \E s \in Slots : \E r \in GetUserResults : handleFileUpload_getUser(s, r)
    \/ \E s \in Slots : \E r \in UploadResults : handleFileUpload_upload(s, r)

SpecSize == Init /\ [][NextSize]_vars

----------------------------------------------------------------------------
(* The validator over a wide range of drafts: the form with its documents  *)
(* uploaded or not, the user typing values around every rule's boundary.   *)

EmailInputsWide ==
    {EmptyString, EmailOk, <<"a", "b">>, <<"a", "@", "b">>}

AmountInputsWide ==
    {EmptyString, <<"0">>, <<"-", "5">>, <<"9", "9", "9">>,
     <<"1", "0", "0", "0">>, <<"1", "0", "0", "0", "0", "0", "0">>,
     <<"1", "0", "0", "0", "0", "0", "1">>}

InputsWideOf(name) ==
    CASE name = "grant_amount" -> AmountInputsWide
      [] name = "contact_email" -> EmailInputsWide
      [] OTHER -> TextInputs

\* the url a stored upload of plan.pdf by u1 leaves in the draft
PlanUrl == PublicUrl(FilePath("u1", "uuid1", "plan.pdf"))

\* the draft and slots once the three documents are uploaded
WithDocuments(fd) ==
    [k \in DOMAIN fd \cup UrlKeys |-> IF k \in UrlKeys THEN PlanUrl ELSE fd[k]]

AllDocuments == [s \in Slots |-> "plan.pdf"]

InitValidate ==
    /\ \E docs \in BOOLEAN :
         /\ formData = IF docs THEN WithDocuments(InitialDraft)
                       ELSE InitialDraft
         /\ uploadedFiles = IF docs THEN AllDocuments ELSE EmptyObject
    /\ isSubmitting = FALSE
    /\ uploadProgress = [s \in Slots |-> FALSE]
    /\ submitMessage = EmptyString
    /\ sub = IdleSub
    /\ up = [s \in Slots |-> IdleUp]
    /\ timers = 0
    /\ shadow = [formData |-> formData, uploadedFiles |-> uploadedFiles]
    /\ AppShowsForm

NextValidate ==
    \/ \E name \in EditFields : \E value \in InputsWideOf(name) :
          handleInputChange(name, value)
    \/ handleSubmit
    \/ \E r \in GetUserResults : handleSubmit_getUser(r)
    \/ \E r \in InsertResults : handleSubmit_insert(r)
    \/ resetTimeout

SpecValidate == InitValidate /\ [][NextValidate]_vars

\* the same with collaborators that answer: every awaited getUser and insert
\* resolves or rejects
SpecValidateFair ==
    /\ InitValidate
    /\ [][NextValidate]_vars
    /\ WF_vars(\E r \in GetUserResults : handleSubmit_getUser(r))
    /\ WF_vars(\E r \in InsertResults : handleSubmit_insert(r))

----------------------------------------------------------------------------
(* The email rule over every string up to MaxEmailLen: a draft whose other *)
(* fields and documents are in order, submitted with each e-mail string.   *)

EmailAlphabet == {"a", "@", ".", " "}

EmailStrings ==
    {EmailOk} \cup UNION {[1..n -> EmailAlphabet] : n \in 0..MaxEmailLen}

FilledDraft(address) ==
    WithDocuments(
      [company_name |-> <<"x">>, contact_email |-> address,
       contact_phone |-> <<"x">>, contact_person |-> <<"x">>,
       grant_amount |-> 1000, project_description |-> <<"x">>])

InitEmail ==
    /\ \E address \in EmailStrings : formData = FilledDraft(address)
    /\ uploadedFiles = AllDocuments
    /\ isSubmitting = FALSE
    /\ uploadProgress = [s \in Slots |-> FALSE]
    /\ submitMessage = EmptyString
    /\ sub = IdleSub
    /\ up = [s \in Slots |-> IdleUp]
    /\ timers = 0
    /\ shadow = [formData |-> formData, uploadedFiles |-> uploadedFiles]
    /\ AppShowsForm

NextEmail ==
    \/ handleSubmit
    \/ \E r \in GetUserResults : handleSubmit_getUser(r)
    \/ \E r \in InsertResults : handleSubmit_insert(r)
    \/ resetTimeout

SpecEmail == InitEmail /\ [][NextEmail]_vars


----------------------------------------------------------------------------
(* The form under a session that changes: App, the log-in of Auth and the  *)
(* form together.  getUser answers with the user of the session the         *)
(* collaborator holds when it answers.                                      *)

\* session.user.id
UserOf(s) == CASE s = "s1" -> "u1" [] s = "s2" -> "u2"

\* what getUser answers now: the user of the collaborator's session, no
\* user when it holds none
GetUserNow ==
    IF authSession = NoSession
    THEN {[kind |-> "nouser", user |-> ""]}
    ELSE {[kind |-> "user", user |-> UserOf(authSession)]}

\* App renders <GrantApplicationForm />
FormShown == session # NoSession

\* the file the user picks and the slot it goes to in these runs
SessionSlot == "business_plan"
SessionFile == "plan.pdf"

\* a filled draft whose three documents were uploaded under session s1
InitSession ==
    /\ formData = FilledDraft(EmailOk)
    /\ uploadedFiles = AllDocuments
    /\ isSubmitting = FALSE
    /\ uploadProgress = [s \in Slots |-> FALSE]
    /\ submitMessage = EmptyString
    /\ sub = IdleSub
    /\ up = [s \in Slots |-> IdleUp]
    /\ timers = 0
    /\ shadow = [formData |-> formData, uploadedFiles |-> uploadedFiles]
    /\ AppShowsForm

NextSession ==
    \/ FormShown /\ handleFileUpload(SessionSlot, SessionFile)
    \/ \E s \in Slots : \E r \in GetUserNow : handleFileUpload_getUser(s, r)
    \/ \E s \in Slots : \E r \in UploadResults : handleFileUpload_upload(s, r)
    \/ FormShown /\ handleSubmit
    \/ \E r \in GetUserNow : handleSubmit_getUser(r)
    \/ \E r \in InsertResults : handleSubmit_insert(r)
    \/ resetTimeout
    \/ onAuthStateChange
    \/ \E s \in {NoSession} \cup Sessions : sessionChanges(s)
    \/ logout
    \/ \E r \in SignOutResults : logout_signOut(r)
    \/ Auth_handleSubmit
    \/ \E r \in SignInResults : Auth_handleSubmit_signIn(r)

SpecSession == InitSession /\ [][NextSession]_vars

----------------------------------------------------------------------------
(* Properties of the submission sequencer *)

\* the record of the one insert request of the running invocation
C1_RecordSent ==
    /\ sub.inserts <= 1
    /\ sub.pc = "insert" =>
         /\ sub.inserts = 1
         /\ DOMAIN sub.record = DOMAIN sub.formData \cup {"user_id", "status"}
         /\ \A k \in DOMAIN sub.formData : sub.record[k] = sub.formData[k]
         /\ sub.record["user_id"] = sub.user
         /\ sub.record["status"] = "pending"

\* C1: a submission of a valid draft for which getUser returns a user makes
\* exactly one insert request, whose record is the draft the submission was
\* invoked on plus user_id = that user's id and status = "pending"; no
\* invocation makes a second insert request, whatever the insert returns.
C1_ExactlyOneInsert ==
    /\ []C1_RecordSent
    /\ [][/\ (~isSubmitting /\ isSubmitting' /\ handleSubmit) =>
               (sub'.formData = formData /\ sub'.inserts = 0)
          /\ \A r \in GetUserResults :
               (r.kind = "user" /\ sub.pc = "getUser" /\ sub'.pc # sub.pc
                /\ handleSubmit_getUser(r)) =>
                  (sub'.pc = "insert" /\ sub'.user = r.user
                   /\ sub'.formData = sub.formData)
          /\ sub.pc = "insert" => (sub' = sub \/ sub'.pc = "idle")]_vars

C1_Witness ==
    /\ sub.pc = "insert"
    /\ sub.inserts = 1
    /\ sub.record["user_id"] = "u1"
    /\ \A s \in Slots : ~Absent(sub.record, UrlKey(s))

\* C2: a submission of a draft with an empty required field, or with a
\* grant_amount not greater than 0, ends at once with a non-empty message and
\* with no request made: the handler is back at idle, neither at getUser nor
\* at insert.
C2_InvalidDraftNoNetwork ==
    [][(/\ handleSubmit
        /\ \/ \E f \in TextFields \cup {"contact_email"} :
                 formData[f] = EmptyString
           \/ ~(formData.grant_amount > 0))
       => (/\ submitMessage' # EmptyString
           /\ sub'.pc = "idle"
           /\ sub'.inserts = 0
           /\ ~isSubmitting')]_vars

C2_Witness ==
    /\ submitMessage = MsgRequired
    /\ sub.pc = "idle"
    /\ formData.contact_phone = EmptyString
    /\ \A f \in {"company_name", "contact_person", "project_description"} :
          formData[f] # EmptyString
    /\ formData.contact_email = EmailOk
    /\ formData.grant_amount = 1000
    /\ ~DocumentsMissing(uploadedFiles)

\* the draft and the slots are cleared
DraftCleared ==
    /\ \A f \in TextFields \cup {"contact_email"} : formData[f] = EmptyString
    /\ formData.grant_amount = 0
    /\ DOMAIN formData \cap UrlKeys = {}
    /\ DOMAIN uploadedFiles = {}

\* C3: when an insert succeeds the message shown contains the identifier of
\* the returned record and a reset timer is started; when a reset timer
\* fires, every text field of the draft is empty, the amount is 0, the draft
\* holds no document url and no slot holds a file.
C3_SuccessThenReset ==
    [][/\ \A r \in InsertResults :
            (r.kind = "ok" /\ handleSubmit_insert(r)) =>
               /\ \E i \in DOMAIN submitMessage' : submitMessage'[i] = r.text
               /\ timers' = timers + 1
       /\ resetTimeout => DraftCleared']_vars

C3_Witness ==
    /\ sub.pc = "insert"
    /\ timers = 0
    /\ DraftCleared

\* a step the user drives: an edit, a file selection and the upload it
\* starts, a click on submit
UserDriven ==
    \/ \E name \in EditFields : \E value \in InputsOf(name) :
          handleInputChange(name, value)
    \/ \E s \in Slots : \E f \in Files : handleFileUpload(s, f)
    \/ \E s \in Slots : \E r \in GetUserResults : handleFileUpload_getUser(s, r)
    \/ \E s \in Slots : \E r \in UploadResults : handleFileUpload_upload(s, r)
    \/ handleSubmit

\* C4: when the insert returns an error, the message is the collaborator's
\* error text and the draft and slots are left as they are; while that
\* message is shown, only a step the user drives changes the draft, the
\* document urls or the slots.
C4_DraftKeptAfterInsertError ==
    [][/\ \A r \in InsertResults :
            (r.kind = "error" /\ handleSubmit_insert(r)) =>
               /\ submitMessage' = MsgInsertError(r.text)
               /\ formData' = formData
               /\ uploadedFiles' = uploadedFiles
       /\ ((\E e \in ErrTexts : submitMessage = MsgInsertError(e))
           /\ ~UserDriven)
          => (formData' = formData /\ uploadedFiles' = uploadedFiles)]_vars

\* C12: when getUser answers a submission of a valid draft with no user or
\* with an error, no insert request is made, the message asks to log in, the
\* handler is back at idle with isSubmitting false, and the draft and the
\* slots are as they were.
C12_NoSessionNoInsert ==
    [][\A r \in GetUserResults :
          (/\ sub.pc = "getUser"
           /\ r.kind \in {"nouser", "error"}
           /\ handleSubmit_getUser(r))
          => /\ submitMessage' = MsgLoginSubmit
             /\ sub'.pc = "idle"
             /\ sub.inserts = 0
             /\ sub'.inserts = 0
             /\ ~isSubmitting'
             /\ formData' = formData
             /\ uploadedFiles' = uploadedFiles]_vars

C12_Witness ==
    /\ submitMessage = MsgLoginSubmit
    /\ sub.pc = "idle"
    /\ ~isSubmitting
    /\ DOMAIN uploadedFiles = Slots
    /\ UrlKeys \subseteq DOMAIN formData
    /\ ~RequiredMissing(formData)
    /\ formData.contact_email = EmailOk

\* C13: while an invocation of handleSubmit is waiting for getUser or for
\* the insert, isSubmitting is true and the submit button, disabled by it,
\* cannot start another invocation; so the one running invocation has at most
\* its one insert request outstanding.  The flag is true at no other time.
C13_SubmitDisabledWhileRunning ==
    /\ sub.pc # "idle" => (isSubmitting /\ ~ENABLED handleSubmit)
    /\ isSubmitting => sub.pc \in {"getUser", "insert"}
    /\ sub.pc = "getUser" => sub.inserts = 0
    /\ sub.pc = "insert" => sub.inserts = 1

C13_Witness ==
    /\ sub.pc = "insert"
    /\ isSubmitting
    /\ ~ENABLED handleSubmit
    /\ timers = 1

\* C14: every invocation of handleSubmit returns to idle with isSubmitting
\* false when its requests are answered: at once when validation fails, and
\* eventually after getUser and the insert resolved or rejected, whatever
\* they answered.
C14_SubmitReturnsToIdle ==
    /\ [][(handleSubmit /\ ValidationMessage(formData, uploadedFiles) # <<>>)
            => (~isSubmitting' /\ sub'.pc = "idle")]_vars
    /\ [](isSubmitting => <>(~isSubmitting /\ sub.pc = "idle"))
    /\ [](sub.pc # "idle" => <>(~isSubmitting /\ sub.pc = "idle"))

C14_Witness ==
    /\ submitMessage = MsgSubmitFailed
    /\ sub.pc = "idle"
    /\ ~isSubmitting
    /\ timers = 0

\* C16: the draft never carries a status or a user_id, neither the draft the
\* form holds nor the copy a running submission spreads; the two keys exist
\* only in the record of an insert request.
C16_DraftHasNoOwnerNorStatus ==
    /\ DOMAIN formData \cap {"status", "user_id"} = {}
    /\ DOMAIN sub.formData \cap {"status", "user_id"} = {}
    /\ DOMAIN shadow.formData \cap {"status", "user_id"} = {}
    /\ sub.pc = "insert" => {"status", "user_id"} \subseteq DOMAIN sub.record

C16_Witness ==
    /\ sub.pc = "insert"
    /\ sub.record["status"] = "pending"
    /\ DOMAIN formData = EditFields \cup UrlKeys
    /\ submitMessage = EmptyString
    /\ timers = 0

\* C23: the record of every insert request passes all the validation
\* rules: its five text fields are non-empty, its e-mail has the required
\* shape, its amount is within [1000, 1000000] and it carries the three
\* document urls; also when the draft was edited, an upload was stored or
\* the reset fired while the submission waited for getUser.
C23_RecordIsValid ==
    sub.pc = "insert" =>
       /\ \A f \in {"company_name", "contact_email", "contact_person",
                     "contact_phone", "project_description"} :
             f \in DOMAIN sub.record /\ sub.record[f] # <<>>
       /\ EmailRegexTest(sub.record["contact_email"])
       /\ sub.record["grant_amount"] >= 1000
       /\ sub.record["grant_amount"] <= 1000000
       /\ \A s \in Slots :
             UrlKey(s) \in DOMAIN sub.record /\ sub.record[UrlKey(s)] # <<>>

C23_Witness ==
    /\ sub.pc = "insert"
    /\ sub.record["company_name"] = <<"x">>
    /\ formData.company_name = EmptyString
    /\ formData.grant_amount = 0
    /\ UrlKeys \subseteq DOMAIN formData
    /\ timers = 0

\* C25: a stored draft is stored once: after an insert succeeded and until
\* its reset timer fires, no insert request is made for the draft the form
\* still holds.
C25_StoredOnce ==
    [][(sub.pc = "getUser" /\ sub'.pc = "insert")
          => ~(timers > 0 /\ sub'.formData = formData)]_vars

----------------------------------------------------------------------------
(* Properties of the upload coordinator *)

\* C5: when the storage write for a slot returns an error, the message is the
\* collaborator's error text for that slot, and the slot is unset: it holds
\* no file and the draft holds no url for it.
C5_FailedUploadLeavesSlotUnset ==
    [][\A s \in Slots : \A r \in UploadResults :
          (r.kind = "error" /\ handleFileUpload_upload(s, r)) =>
             /\ submitMessage' = MsgUploadError(s, r.text)
             /\ Absent(uploadedFiles', s)
             /\ Absent(formData', UrlKey(s))]_vars

\* C6: selecting a file of more than 10 MiB starts no request for the slot
\* and changes nothing but the message: the draft, the slots, the
\* in-progress flags and the running handlers are as before, so a slot that
\* was unset stays unset.
C6_OversizeChangesOnlyMessage ==
    [][\A s \in Slots : \A f \in Files :
          (FileSize(f) > 10485760 /\ handleFileUpload(s, f)) =>
             /\ submitMessage' = MsgFileSize
             /\ up'[s].pc = "idle"
             /\ UNCHANGED <<formData, uploadedFiles, uploadProgress, up, sub,
                            isSubmitting, timers>>]_vars

C6_Witness ==
    /\ submitMessage = MsgFileSize
    /\ \A s \in Slots : up[s].pc = "idle" /\ ~uploadProgress[s]
    /\ DOMAIN uploadedFiles = {}
    /\ DOMAIN formData \cap UrlKeys = {}

\* C7: when getUser returns no user or an error to an upload, the message
\* asks to log in, no storage upload is started, the draft and the slots are
\* unchanged and the slot's in-progress flag is false.
C7_UploadWithoutSession ==
    [][\A s \in Slots : \A r \in GetUserResults :
          (r.kind \in {"nouser", "error"} /\ handleFileUpload_getUser(s, r)) =>
             /\ submitMessage' = MsgLoginUpload
             /\ up'[s].pc = "idle"
             /\ ~uploadProgress'[s]
             /\ UNCHANGED <<formData, uploadedFiles>>]_vars

C7_Witness ==
    /\ submitMessage = MsgLoginUpload
    /\ \A s \in Slots : up[s].pc = "idle" /\ ~uploadProgress[s]
    /\ DOMAIN uploadedFiles = {}

\* C8: no write to the draft or to the slots is lost, however the
\* completions of the uploads of different slots interleave with each other
\* and with the edits: every field holds the value last entered, and every
\* slot whose upload was stored has its url in the draft and its file
\* recorded.
C8_NoLostUpdate ==
    /\ \A k \in EditFields : formData[k] = shadow.formData[k]
    /\ \A s \in Slots :
          /\ Absent(formData, UrlKey(s)) = Absent(shadow.formData, UrlKey(s))
          /\ ~Absent(shadow.formData, UrlKey(s)) =>
                formData[UrlKey(s)] = shadow.formData[UrlKey(s)]
          /\ Absent(uploadedFiles, s) = Absent(shadow.uploadedFiles, s)
          /\ ~Absent(shadow.uploadedFiles, s) =>
                uploadedFiles[s] = shadow.uploadedFiles[s]

C8_Witness ==
    /\ up["financial_statements"].pc = "upload"
    /\ up["supporting_documents"].pc = "upload"
    /\ ~Absent(formData, "business_plan_url")
    /\ ~Absent(uploadedFiles, "business_plan")
    /\ \A f \in TextFields : formData[f] = <<"x">>

\* C15: for each slot the in-progress flag is true exactly while an accepted
\* upload of the slot waits for getUser or for the storage write; during that
\* time the slot's file input, disabled by the flag, starts no other upload,
\* so at most one upload per slot is in flight; the flag is false whenever no
\* upload of the slot is waiting, whatever the last one ended with.
C15_FlagWhileUploading ==
    \A s \in Slots :
       /\ uploadProgress[s] <=> up[s].pc \in {"getUser", "upload"}
       /\ up[s].pc # "idle" => ~ENABLED (\E f \in Files : handleFileUpload(s, f))
       /\ up[s].pc = "idle" => ENABLED (\E f \in Files : handleFileUpload(s, f))

C15_Witness ==
    /\ up["business_plan"].pc = "upload"
    /\ uploadProgress["business_plan"]
    /\ up["financial_statements"].pc = "idle"
    /\ ~uploadProgress["financial_statements"]
    /\ submitMessage = MsgUploadFailed
    /\ ~Absent(uploadedFiles, "supporting_documents")

\* C20: a stored upload of slot s writes the public url of the stored path
\* under {s}_url, records the selected file as slot s, and leaves every other
\* key of the draft and every other slot as it was.
C20_StoredUploadFrame ==
    [][\A s \in Slots : \A r \in UploadResults :
          (up[s].pc = "upload" /\ r.kind = "ok" /\ handleFileUpload_upload(s, r))
          => /\ DOMAIN formData' = DOMAIN formData \cup {UrlKey(s)}
             /\ formData'[UrlKey(s)] = PublicUrl(up[s].path)
             /\ \A k \in DOMAIN formData \ {UrlKey(s)} :
                   formData'[k] = formData[k]
             /\ DOMAIN uploadedFiles' = DOMAIN uploadedFiles \cup {s}
             /\ uploadedFiles'[s] = up[s].file
             /\ \A t \in DOMAIN uploadedFiles \ {s} :
                   uploadedFiles'[t] = uploadedFiles[t]]_vars

C20_Witness ==
    /\ DOMAIN uploadedFiles = Slots
    /\ UrlKeys \subseteq DOMAIN formData
    /\ \A s \in Slots : up[s].pc = "idle"
    /\ formData.company_name = <<"x">>
    /\ formData.grant_amount = 0

\* C21: the size limit is exclusive: selecting a file of exactly
\* 10 * 1024 * 1024 bytes starts an upload of it (the slot's flag is set, the
\* handler waits for getUser, no message is shown) which goes on to the
\* storage write when getUser returns a user; selecting a file of one byte
\* more starts nothing and shows the size message.
C21_SizeLimitExclusive ==
    [][\A s \in Slots :
          /\ \A f \in Files :
                handleFileUpload(s, f) =>
                   /\ FileSize(f) = 10485760 =>
                         /\ up'[s] = [pc |-> "getUser", file |-> f,
                                      path |-> <<>>]
                         /\ uploadProgress'[s]
                         /\ submitMessage' = submitMessage
                   /\ FileSize(f) = 10485761 =>
                         /\ up'[s].pc = "idle"
                         /\ ~uploadProgress'[s]
                         /\ submitMessage' = MsgFileSize
          /\ \A r \in GetUserResults :
                (/\ up[s].pc = "getUser"
                 /\ FileSize(up[s].file) = 10485760
                 /\ r.kind = "user"
                 /\ handleFileUpload_getUser(s, r))
                => (up'[s].pc = "upload" /\ up'[s].file = up[s].file)]_vars

C21_Witness ==
    /\ up["business_plan"].pc = "upload"
    /\ FileSize(up["business_plan"].file) = 10485760
    /\ submitMessage = MsgFileSize

\* C22: in every state, for each slot, the slot holds a file exactly when
\* the draft holds the slot's url; uploads, failed uploads, submissions and
\* the reset keep the two in step.
C22_FileIffUrl ==
    \A s \in Slots : (s \in DOMAIN uploadedFiles) <=> (UrlKey(s) \in DOMAIN formData)

C22_Witness ==
    /\ "business_plan" \in DOMAIN uploadedFiles
    /\ "business_plan_url" \in DOMAIN formData
    /\ "financial_statements" \notin DOMAIN uploadedFiles
    /\ "financial_statements_url" \notin DOMAIN formData
    /\ formData.grant_amount = 0
    /\ formData.company_name = EmptyString
    /\ timers = 0
    /\ sub.pc = "idle"
    /\ submitMessage = EmptyString

----------------------------------------------------------------------------
(* Properties of the validator *)

\* C9: for a draft that passes the required-field rule and the email rule, a
\* submission with a grant_amount below 1000 or above 1000000 ends with the
\* amount message and no request; with 1000 or 1000000 the amount rule
\* passes, and with the documents present the submission goes on to getUser.
C9_AmountRange ==
    [][(/\ handleSubmit
        /\ ~RequiredMissing(formData)
        /\ EmailRegexTest(formData.contact_email))
       => LET amount == formData.grant_amount IN
          /\ (amount < 1000 \/ amount > 1000000) =>
                /\ submitMessage' = MsgAmount
                /\ sub'.pc = "idle"
                /\ sub'.inserts = 0
          /\ amount \in {1000, 1000000} =>
                /\ submitMessage' # MsgAmount
                /\ ~DocumentsMissing(uploadedFiles) => sub'.pc = "getUser"]_vars

C9_Witness ==
    /\ sub.pc = "getUser"
    /\ sub.formData.grant_amount = 1000000

\* C11: an invalid submit shows the message of the first rule that fails in
\* the order required fields, email shape, amount range, documents present,
\* whatever later rules fail too; the message is one reason, not several; a
\* draft for which no rule fails gets no message and goes on to getUser.
C11_FirstFailingRule ==
    [][handleSubmit =>
         LET required == \/ \E f \in TextFields \cup {"contact_email"} :
                              formData[f] = EmptyString
                         \/ formData.grant_amount <= 0
             shape == ~EmailRegexTest(formData.contact_email)
             amount == \/ formData.grant_amount < 1000
                       \/ formData.grant_amount > 1000000
             documents == \E s \in Slots : s \notin DOMAIN uploadedFiles
         IN /\ required => submitMessage' = MsgRequired
            /\ (~required /\ shape) => submitMessage' = MsgEmail
            /\ (~required /\ ~shape /\ amount) => submitMessage' = MsgAmount
            /\ (~required /\ ~shape /\ ~amount /\ documents) =>
                  submitMessage' = MsgDocuments
            /\ (required \/ shape \/ amount \/ documents) =>
                  (Len(submitMessage') = 1 /\ sub'.pc = "idle")
            /\ ~(required \/ shape \/ amount \/ documents) =>
                  (submitMessage' = EmptyString /\ sub'.pc = "getUser")]_vars

C11_Witness ==
    /\ submitMessage = MsgEmail
    /\ sub.pc = "idle"
    /\ ~RequiredMissing(formData)
    /\ formData.contact_email = <<"a", "@", "b">>
    /\ formData.grant_amount = 999
    /\ DocumentsMissing(uploadedFiles)

\* the shape local@domain.tld: no whitespace, exactly one @, a non-empty
\* local part before it, and after it a dot with a character before and a
\* character after
ReferenceShape(str) ==
    /\ \A i \in DOMAIN str : str[i] \notin {" ", "\t", "\n"}
    /\ Cardinality({i \in DOMAIN str : str[i] = "@"}) = 1
    /\ \E i \in DOMAIN str : \E j \in DOMAIN str :
          /\ str[i] = "@"
          /\ str[j] = "."
          /\ 1 < i
          /\ i + 1 < j
          /\ j < Len(str)

\* C10: the email rule rejects every e-mail without an @ and every e-mail
\* whose part after the @ has no dot, accepts a@b.co, and on every string up
\* to the bound agrees with the shape local@domain.tld.
C10_EmailRule ==
    [][(handleSubmit /\ ~RequiredMissing(formData)) =>
          LET str == formData.contact_email
              ats == {i \in DOMAIN str : str[i] = "@"}
              rejected == submitMessage' = MsgEmail
          IN /\ ats = {} => rejected
             /\ (\A i \in ats : \A j \in DOMAIN str : j > i => str[j] # ".")
                   => rejected
             /\ str = <<"a", "@", "b", ".", "c", "o">> => ~rejected
             /\ rejected = ~ReferenceShape(str)]_vars

C10_Witness ==
    /\ sub.pc = "getUser"
    /\ sub.formData.contact_email = <<"a", "@", "b", ".", "c", "o">>

----------------------------------------------------------------------------
(* Properties of the session store and of the credential form *)

\* nothing is pending: the listener is subscribed, no getSession, signOut
\* or credential request is awaited, no notification is on its way
Quiescent ==
    /\ effect = "subscribed"
    /\ fetch.pc = "idle"
    /\ notifications = <<>>
    /\ signOuts = 0
    /\ authSub.pc = "idle"

\* C17: when the response of the startup getSession has been applied and
\* nothing else is pending, the session App holds is the session the
\* collaborator holds: the response does not put an older session in place
\* of a newer one the listener was notified of.
C17_FetchKeepsNewerSession ==
    [][(fetch.pc = "resolved" /\ fetchSession /\ Quiescent')
          => session' = authSession']_vars

\* C18: if the collaborator holds a session when the page starts, then
\* eventually App holds that session, and so shows the form, with or without
\* verified=true in the url; unless the collaborator's session has changed
\* by then or getSession was rejected.
C18_StartupSessionShown ==
    \A s \in Sessions :
       (authSession = s) =>
          <>(session = s \/ authSession # s \/ error = MsgFetchFailed)

\* C19: a submission of the credential form makes one request, signUp in
\* registration mode and signInWithPassword in login mode, and only a
\* submission starts a request; when the request returns a result the handler
\* ends with the loading flag cleared and without another request, and an
\* error result is shown as the one message "Error: " plus its text.
C19_OneIdentityRequest ==
    [][/\ (authSub'.pc # authSub.pc /\ authSub'.pc # "idle") =>
            /\ authSub.pc = "idle"
            /\ ~isLoading
            /\ isLoading'
            /\ authSub'.pc = IF isSignUp THEN "signUp"
                             ELSE "signInWithPassword"
            /\ authSub'.requests = 1
       /\ \A r \in SignUpResults \cup SignInResults :
            (/\ authSub.pc # "idle"
             /\ r.kind # "throw"
             /\ \/ r \in SignUpResults /\ Auth_handleSubmit_signUp(r)
                \/ r \in SignInResults /\ Auth_handleSubmit_signIn(r))
            => /\ authSub'.pc = "idle"
               /\ authSub'.requests = 1
               /\ ~isLoading'
               /\ r.kind = "error" =>
                     /\ message' = <<"Error: ", r.text>>
                     /\ messageType' = "error"]_vars

C19_Witness ==
    /\ isSignUp
    /\ message = <<"Error: ", "E1">>
    /\ messageType = "error"
    /\ ~isLoading
    /\ authSub.pc = "idle"
    /\ authSub.requests = 1

\* the leading segment of the storage path a public url points to
PathOwner(url) == url[2]

\* C24: every document url in the record of an insert request points to a
\* storage path whose leading segment is the record's user_id, whatever
\* sign-ins, session changes, uploads and submissions came before.
C24_UrlsUnderOwner ==
    sub.pc = "insert" =>
       \A s \in Slots :
          UrlKey(s) \in DOMAIN sub.record =>
             PathOwner(sub.record[UrlKey(s)]) = sub.record["user_id"]

====
